---- MODULE Spec2Model ----
(***************************************************************************)
(* storybook test-runner: the story-index-to-test-program transformer      *)
(* (transformPlaywrightJson) and the index-json staging of the CLI         *)
(* (test-storybook: getIndexJson, getIndexTempDir, cleanup, onProcessEnd). *)
(*                                                                         *)
(* Strings that the code inspects character by character (titles, names,  *)
(* ids) are sequences of one-character strings.  A JavaScript object with *)
(* an optional property is a record that has or lacks the field.  A       *)
(* Record<string, X> is the sequence of its [key, value] pairs in         *)
(* insertion order, which is the order Object.entries/Object.values give  *)
(* for non-numeric keys.  Program text is a sequence of tokens.           *)
(***************************************************************************)
EXTENDS Integers, Sequences, FiniteSets, TLC

VARIABLES
    index,            \* the index document handed to transformPlaywrightJson
    includeTags, excludeTags, skipTags,   \* what getTagOptions() returns
    pc,               \* per call of transformPlaywrightJson: "idle" or "done"
    titleIdToEntries, \* per call: the local titleIdToEntries
    ret,              \* per call: what the call returned or threw
    cpc,              \* where the CLI process is
    indexRes, storiesRes,   \* how the two fetches of getIndexJson settled
    indexJson,        \* what getIndexJson returned or threw
    tmpDir,           \* the local tmpDir of getIndexTempDir
    indexTmpDir,      \* the module-level indexTmpDir
    written,          \* how many entries of titleIdToTest forEach has written
    fsDirs, fsFiles,  \* the temporary directories and test files on disk
    created,          \* history: the directories tempy.directory() has made
    exitCode,         \* the exit code of the process
    sigints,          \* how many SIGINTs were delivered
    lastEvent         \* the process event whose handler ran in the last step

tvars == <<index, includeTags, excludeTags, skipTags, pc, titleIdToEntries, ret>>

cvars == <<cpc, indexRes, storiesRes, indexJson, tmpDir, indexTmpDir, written,
           fsDirs, fsFiles, created, exitCode, sigints, lastEvent>>

vars == <<tvars, cvars>>

(***************************************************************************)
(* Bounds and input alphabets                                              *)
(***************************************************************************)
MaxEntries == 2

MaxSigints == 2

Runs == {1, 2}

PageName == <<"P", "a", "g", "e">>

Names == {PageName, <<"p", "a", "g", "e">>}

\* "A/B" and "a b" have the same title id "a-b"; "B" has the title id "b".
Titles == {<<"A", "/", "B">>, <<"a", " ", "b">>, <<"B">>}

PlayFn == <<"p", "l", "a", "y", "-", "f", "n">>

TagA == <<"a">>

\* Tag sets an entry may carry (besides carrying no tags property at all).
EntryTagSets == {{TagA}, {TagA, PlayFn}}

V3TagSets == {{TagA, PlayFn}}

\* Values of includeTags and excludeTags, and of skipTags.
PolicyTagSets == {{}, {PlayFn}, {TagA, PlayFn}}

SkipTagSets == {{}, {PlayFn}}

Digits == <<"1", "2", "3", "4", "5", "6", "7", "8", "9">>

StoryIdAt(i) == <<"s", Digits[i]>>

(***************************************************************************)
(* Record<string, X> helpers                                               *)
(***************************************************************************)
RECURSIVE Find(_, _, _)
Find(m, k, i) ==
    IF i > Len(m) THEN 0
    ELSE IF m[i].key = k THEN i
    ELSE Find(m, k, i + 1)

Has(m, k) == Find(m, k, 1) # 0

Get(m, k) == m[Find(m, k, 1)].value

Put(m, k, v) ==
    IF Has(m, k)
    THEN [m EXCEPT ![Find(m, k, 1)] = [key |-> k, value |-> v]]
    ELSE Append(m, [key |-> k, value |-> v])

Keys(m) == {m[i].key : i \in DOMAIN m}

(***************************************************************************)
(* toId(title) of @storybook/csf: sanitize                                 *)
(***************************************************************************)
toLowerCase(c) ==
    CASE c = "A" -> "a"
      [] c = "B" -> "b"
      [] c = "P" -> "p"
      [] OTHER -> c

SpecialChars == {" ", "/", "-", "_", ".", ",", "'", "&"}

ReplaceSpecial(c) == IF c \in SpecialChars THEN "-" ELSE c

RECURSIVE CollapseDashes(_)
CollapseDashes(s) ==
    IF Len(s) < 2 THEN s
    ELSE IF s[1] = "-" /\ s[2] = "-" THEN CollapseDashes(Tail(s))
    ELSE <<s[1]>> \o CollapseDashes(Tail(s))

TrimStart(s) == IF Len(s) > 0 /\ s[1] = "-" THEN Tail(s) ELSE s

TrimEnd(s) == IF Len(s) > 0 /\ s[Len(s)] = "-" THEN SubSeq(s, 1, Len(s) - 1) ELSE s

sanitize(s) ==
    TrimEnd(TrimStart(CollapseDashes(
        [i \in 1..Len(s) |-> ReplaceSpecial(toLowerCase(s[i]))])))

toId(title) == sanitize(title)

(***************************************************************************)
(* Program synthesis: makeTest, makeDescribe, generate                     *)
(***************************************************************************)
StringLiteral(s) == <<"\"">> \o s \o <<"\"">>

Identifier(s) == s

\* story.tags?.includes(tag)
TagsInclude(story, tag) == "tags" \in DOMAIN story /\ tag \in story.tags

testPrefixer(name, title, id, storyExport) ==
    << <<"async">>, <<"()=>">>, <<"{">>, <<"testFn">>, <<"(">>, <<"{">>,
       <<"id">>, <<":">>, StringLiteral(id), <<",">>,
       <<"title">>, <<":">>, StringLiteral(title), <<",">>,
       <<"name">>, <<":">>, StringLiteral(name), <<",">>,
       <<"storyExport">>, <<":">>, Identifier(storyExport),
       <<"}">>, <<")">>, <<"}">> >>

makeTestPlayOnly(entry, shouldSkip, metaOrStoryPlay) ==
    [callee |-> IF shouldSkip THEN <<"it.skip">> ELSE <<"it">>,
     arguments |-> << StringLiteral(<<"play-test">>),
                      testPrefixer(entry.name, entry.title, entry.id, entry.id) >>]

makeTest(entry, shouldSkip, metaOrStoryPlay) ==
    [callee |-> IF shouldSkip THEN <<"it.skip">> ELSE <<"it">>,
     arguments |-> << StringLiteral(IF metaOrStoryPlay THEN <<"play-test">> ELSE <<"smoke-test">>),
                      testPrefixer(entry.name, entry.title, entry.id, entry.id) >>]

makeDescribe(title, stmts) ==
    [callee |-> <<"describe">>,
     arguments |-> << StringLiteral(title), stmts >>]

RECURSIVE generate(_)
RECURSIVE generateAll(_)
generate(stmt) ==
    << stmt.callee, <<"(">>, stmt.arguments[1], <<",">> >>
    \o (IF stmt.callee = <<"describe">>
        THEN << <<"()=>">>, <<"{">> >> \o generateAll(stmt.arguments[2]) \o << <<"}">> >>
        ELSE stmt.arguments[2])
    \o << <<")">>, <<";">> >>

generateAll(stmts) ==
    IF stmts = << >> THEN << >>
    ELSE generate(Head(stmts)) \o generateAll(Tail(stmts))

(***************************************************************************)
(* Normalisation: isV3DocsOnly, v3TitleMapToV4TitleMap, groupByTitleId     *)
(***************************************************************************)
isV3DocsOnlyAnyLength(stories) == stories[1].name = PageName

isV3DocsOnly(stories) == Len(stories) = 1 /\ stories[1].name = PageName

V3ToV4(story, stories) ==
    LET rest == DOMAIN story \ {"parameters"}
    IN  [f \in rest \cup {"type"} |->
            IF f \in rest THEN story[f]
            ELSE IF isV3DocsOnly(stories) THEN "docs" ELSE "story"]

v3TitleMapToV4TitleMap(titleIdToStories) ==
    [g \in DOMAIN titleIdToStories |->
        [key |-> titleIdToStories[g].key,
         value |-> [i \in DOMAIN titleIdToStories[g].value |->
                        V3ToV4(titleIdToStories[g].value[i], titleIdToStories[g].value)]]]

LeakedGroups == titleIdToEntries[1]

NoGroups == << >>

RECURSIVE GroupReduce(_, _)
GroupReduce(acc, entries) ==
    IF entries = << >> THEN acc
    ELSE LET entry == Head(entries)
             titleId == toId(entry.title)
             sofar == IF Has(acc, titleId) THEN Get(acc, titleId) ELSE << >>
         IN  GroupReduce(Put(acc, titleId, Append(sofar, entry)), Tail(entries))

groupByTitleId(entries) == GroupReduce(NoGroups, entries)

(***************************************************************************)
(* transformPlaywrightJson                                                 *)
(***************************************************************************)
NotDocsAny(s) == TRUE

NotDocs(s) == ~("type" \in DOMAIN s /\ s.type = "docs")

isIncludedEvery(story, incl) == incl = {} \/ \A tag \in incl : TagsInclude(story, tag)

isIncluded(story, incl) == incl = {} \/ \E tag \in incl : TagsInclude(story, tag)

isNotExcludedNorSkipped(story, excl) ==
    \A tag \in excl \cup skipTags : ~TagsInclude(story, tag)

isNotExcluded(story, excl) == \A tag \in excl : ~TagsInclude(story, tag)

shouldSkip(story, skip) == \E tag \in skip : TagsInclude(story, tag)

StoryTest(story, skip) ==
    makeDescribe(story.name,
        << makeTest(story, shouldSkip(story, skip), TagsInclude(story, PlayFn)) >>)

StoryTests(stories, incl, excl, skip) ==
    LET kept == SelectSeq(stories, LAMBDA s : isIncluded(s, incl) /\ isNotExcluded(s, excl))
    IN  [i \in DOMAIN kept |-> StoryTest(kept[i], skip)]

ReduceGroup(acc, titleId, entries, incl, excl, skip) ==
    LET stories == SelectSeq(entries, NotDocs)
    IN  IF Len(stories) > 0
        THEN Put(acc, titleId,
                 generate(makeDescribe(stories[1].title,
                                       StoryTests(stories, incl, excl, skip))))
        ELSE acc

RECURSIVE TitleIdToTest(_, _, _, _, _)
TitleIdToTest(acc, groups, incl, excl, skip) ==
    IF groups = << >> THEN acc
    ELSE TitleIdToTest(
            ReduceGroup(acc, Head(groups).key, Head(groups).value, incl, excl, skip),
            Tail(groups), incl, excl, skip)

VersionIs(idx, n) == "v" \in DOMAIN idx /\ idx.v = n

SupportedFrom3(idx) == "v" \in DOMAIN idx /\ idx.v >= 3

Supported(idx) == VersionIs(idx, 3) \/ VersionIs(idx, 4)

Grouped(idx) ==
    IF VersionIs(idx, 3)
    THEN v3TitleMapToV4TitleMap(groupByTitleId(idx.stories))
    ELSE groupByTitleId(idx.entries)

UnsupportedVersion(idx) ==
    <<"Unsupported version ", IF "v" \in DOMAIN idx THEN ToString(idx.v) ELSE "undefined">>

transformPlaywrightJson(idx, incl, excl, skip) ==
    IF Supported(idx)
    THEN [kind |-> "return", value |-> TitleIdToTest(<< >>, Grouped(idx), incl, excl, skip)]
    ELSE [kind |-> "throw", message |-> UnsupportedVersion(idx)]

(***************************************************************************)
(* Inputs                                                                  *)
(***************************************************************************)
SeqsUpTo(S, n) == UNION {[1..k -> S] : k \in 0..n}

WithTags(base, tagSets) == {base} \cup {base @@ [tags |-> t] : t \in tagSets}

\* Version-3 stories carry a parameters bag and no type.
V3Shapes ==
    UNION {WithTags([name |-> n, title |-> t, parameters |-> "p"], V3TagSets) :
                n \in Names, t \in Titles}

\* Version-4 entries name their type; the type property is optional in V4Entry.
V4Shapes ==
    {[name |-> PageName, title |-> t] : t \in Titles}
    \cup UNION {WithTags([name |-> PageName, title |-> t, type |-> k], EntryTagSets) :
                    t \in Titles, k \in {"story", "docs"}}

WithIds(shapes) == [i \in DOMAIN shapes |-> shapes[i] @@ [id |-> StoryIdAt(i)]]

V3Indexes == {[v |-> 3, stories |-> WithIds(s)] : s \in SeqsUpTo(V3Shapes, MaxEntries)}

V4Indexes == {[v |-> 4, entries |-> WithIds(s)] : s \in SeqsUpTo(V4Shapes, MaxEntries)}

OtherIndexes ==
    {[v |-> 5, entries |-> WithIds(s)] : s \in SeqsUpTo(V4Shapes, 1)}
    \cup {[stories |-> WithIds(s)] : s \in SeqsUpTo(V3Shapes, 1)}

Indexes == V3Indexes \cup V4Indexes \cup OtherIndexes

(***************************************************************************)
(* Specifications of the transformer on one (index, policy)                *)
(***************************************************************************)
Undefined == "undefined"

\* The CLI state before main() reaches getIndexTempDir.
CliIdle ==
    /\ cpc = "fetch"
    /\ indexRes = [kind |-> "pending"]
    /\ storiesRes = [kind |-> "pending"]
    /\ indexJson = [kind |-> "none"]
    /\ tmpDir = Undefined
    /\ indexTmpDir = Undefined
    /\ written = 0
    /\ fsDirs = {}
    /\ fsFiles = {}
    /\ created = {}
    /\ exitCode = 0
    /\ sigints = 0
    /\ lastEvent = "none"

Init ==
    /\ index \in Indexes
    /\ includeTags \in PolicyTagSets
    /\ excludeTags \in PolicyTagSets
    /\ skipTags \in SkipTagSets
    /\ pc = [r \in Runs |-> "idle"]
    /\ titleIdToEntries = [r \in Runs |-> << >>]
    /\ ret = [r \in Runs |-> [kind |-> "none"]]
    /\ CliIdle

\* The function is synchronous: a call runs to completion, and a second call
\* on the same input starts after the first has returned.
Call(r) ==
    /\ pc[r] = "idle"
    /\ \A q \in Runs : q < r => pc[q] = "done"
    /\ pc' = [pc EXCEPT ![r] = "done"]
    /\ titleIdToEntries' =
          [titleIdToEntries EXCEPT ![r] = IF Supported(index) THEN Grouped(index) ELSE @]
    /\ ret' = [ret EXCEPT ![r] =
                  transformPlaywrightJson(index, includeTags, excludeTags, skipTags)]
    /\ UNCHANGED <<index, includeTags, excludeTags, skipTags>>
    /\ UNCHANGED cvars

\* One call of the transform on the chosen index and tag policy.
Next == Call(1)

Spec == Init /\ [][Next]_vars

\* Two calls on the same index and tag policy, one after the other.
NextTwice == \E r \in Runs : Call(r)

SpecTwice == Init /\ [][NextTwice]_vars

(***************************************************************************)
(* The CLI in index-json mode: main() from the call of getIndexTempDir     *)
(* (line 388) to the end of the process.  Code between two awaits runs     *)
(* without interruption, so a SIGINT handler runs only while the process   *)
(* awaits the fetches or the Jest run.                                     *)
(***************************************************************************)
SampleV4 ==
    [v |-> 4,
     entries |-> WithIds(<<
        [name |-> PageName, title |-> <<"A", "/", "B">>, type |-> "story", tags |-> {TagA, PlayFn}],
        [name |-> PageName, title |-> <<"A", "/", "B">>, type |-> "docs"],
        [name |-> PageName, title |-> <<"B">>, type |-> "story", tags |-> {TagA}] >>)]

SampleV3 ==
    [v |-> 3,
     stories |-> WithIds(<<
        [name |-> PageName, title |-> <<"B">>, parameters |-> "p"] >>)]

SampleV5 == [SampleV4 EXCEPT !.v = 5]

SampleNoVersion == [stories |-> SampleV3.stories]

CliDocs == {SampleV4, SampleV3, SampleV5, SampleNoVersion}

\* A response body: text() rejects, or gives text that is JSON or is not.
Bodies ==
    {[readable |-> FALSE], [readable |-> TRUE, html |-> "<!doctype html>"]}
    \cup {[readable |-> TRUE, json |-> d] : d \in CliDocs}

\* How fetch(url) settles: it rejects, or resolves with a response.
FetchOutcomes ==
    {[kind |-> "rejected"]}
    \cup {[kind |-> "response", ok |-> o, body |-> b] : o \in BOOLEAN, b \in Bodies}

\* await res.text() followed by JSON.parse(json), inside try/catch.
Parses(res) == res.body.readable /\ "json" \in DOMAIN res.body

JSONparse(res) == res.body.json

getIndexJsonStoriesFirst(iRes, sRes) ==
    IF iRes.kind = "rejected" \/ sRes.kind = "rejected" THEN [kind |-> "throw"]
    ELSE IF sRes.ok /\ Parses(sRes) THEN [kind |-> "return", value |-> JSONparse(sRes)]
    ELSE IF iRes.ok /\ Parses(iRes) THEN [kind |-> "return", value |-> JSONparse(iRes)]
    ELSE [kind |-> "throw"]

getIndexJson(iRes, sRes) ==
    IF iRes.kind = "rejected" \/ sRes.kind = "rejected" THEN [kind |-> "throw"]
    ELSE IF iRes.ok /\ Parses(iRes) THEN [kind |-> "return", value |-> JSONparse(iRes)]
    ELSE IF sRes.ok /\ Parses(sRes) THEN [kind |-> "return", value |-> JSONparse(sRes)]
    ELSE [kind |-> "throw"]

TempDirName == "tmp-dir"

TestFile(dir, titleId, test) ==
    [dir |-> dir, name |-> titleId \o <<".test.js">>, content |-> test]

\* fs.rmSync(dir, { recursive: true, force: true }): the directory and the
\* files in it are removed; with force, a directory that is gone is no error.
cleanup ==
    IF indexTmpDir # Undefined
    THEN /\ fsDirs' = fsDirs \ {indexTmpDir}
         /\ fsFiles' = {f \in fsFiles : f.dir # indexTmpDir}
    ELSE UNCHANGED <<fsDirs, fsFiles>>

\* STORYBOOK_COLLECT_COVERAGE is not set: reportCoverage() is not called.
onProcessEnd == cleanup

\* catch (err) { error(err); process.exit(1); } of getIndexTempDir
CatchAndExit ==
    /\ cpc' = "exit"
    /\ exitCode' = 1

\* const indexJson = await getIndexJson(url)
FetchIndexJson ==
    /\ cpc = "fetch"
    /\ \E iRes \in FetchOutcomes, sRes \in FetchOutcomes :
          /\ indexRes' = iRes
          /\ storiesRes' = sRes
          /\ indexJson' = getIndexJson(iRes, sRes)
          /\ IF getIndexJson(iRes, sRes).kind = "return"
             THEN /\ index' = getIndexJson(iRes, sRes).value
                  /\ cpc' = "transform"
                  /\ UNCHANGED exitCode
             ELSE /\ CatchAndExit
                  /\ UNCHANGED index
    /\ lastEvent' = "none"
    /\ UNCHANGED <<includeTags, excludeTags, skipTags, pc, titleIdToEntries, ret>>
    /\ UNCHANGED <<tmpDir, indexTmpDir, written, fsDirs, fsFiles, created, sigints>>

\* const titleIdToTest = transformPlaywrightJson(indexJson)
Transform ==
    /\ cpc = "transform"
    /\ pc' = [pc EXCEPT ![1] = "done"]
    /\ titleIdToEntries' =
          [titleIdToEntries EXCEPT ![1] = IF Supported(index) THEN Grouped(index) ELSE @]
    /\ ret' = [ret EXCEPT ![1] =
                  transformPlaywrightJson(index, includeTags, excludeTags, skipTags)]
    /\ IF Supported(index)
       THEN cpc' = "mkdir" /\ UNCHANGED exitCode
       ELSE CatchAndExit
    /\ lastEvent' = "none"
    /\ UNCHANGED <<index, includeTags, excludeTags, skipTags>>
    /\ UNCHANGED <<indexRes, storiesRes, indexJson, tmpDir, indexTmpDir, written,
                   fsDirs, fsFiles, created, sigints>>

\* tmpDir = tempy.directory(), which may fail to make the directory
MakeTempDir ==
    /\ cpc = "mkdir"
    /\ \/ /\ tmpDir' = TempDirName
          /\ fsDirs' = fsDirs \cup {TempDirName}
          /\ created' = created \cup {TempDirName}
          /\ cpc' = "write"
          /\ UNCHANGED exitCode
       \/ /\ CatchAndExit
          /\ UNCHANGED <<tmpDir, fsDirs, created>>
    /\ lastEvent' = "none"
    /\ UNCHANGED tvars
    /\ UNCHANGED <<indexRes, storiesRes, indexJson, indexTmpDir, written, fsFiles, sigints>>

\* One round of Object.entries(titleIdToTest).forEach: fs.writeFileSync, which
\* may throw.
WriteTestFile ==
    /\ cpc = "write"
    /\ written < Len(ret[1].value)
    /\ \/ /\ fsFiles' = fsFiles \cup
                 {TestFile(tmpDir, ret[1].value[written + 1].key,
                           ret[1].value[written + 1].value)}
          /\ written' = written + 1
          /\ UNCHANGED <<cpc, exitCode>>
       \/ /\ CatchAndExit
          /\ UNCHANGED <<fsFiles, written>>
    /\ lastEvent' = "none"
    /\ UNCHANGED tvars
    /\ UNCHANGED <<indexRes, storiesRes, indexJson, tmpDir, indexTmpDir, fsDirs,
                   created, sigints>>

\* return tmpDir; indexTmpDir = await getIndexTempDir(targetURL); then main()
\* runs on to await executeJestPlaywright(jestOptions)
ReturnTempDir ==
    /\ cpc = "write"
    /\ written = Len(ret[1].value)
    /\ indexTmpDir' = tmpDir
    /\ cpc' = "jest"
    /\ lastEvent' = "none"
    /\ UNCHANGED tvars
    /\ UNCHANGED <<indexRes, storiesRes, indexJson, tmpDir, written, fsDirs, fsFiles,
                   created, exitCode, sigints>>

\* The Jest run ends and the process with it, with Jest's exit code.
JestDone ==
    /\ cpc = "jest"
    /\ \E code \in {0, 1} : exitCode' = code
    /\ cpc' = "exit"
    /\ lastEvent' = "none"
    /\ UNCHANGED tvars
    /\ UNCHANGED <<indexRes, storiesRes, indexJson, tmpDir, indexTmpDir, written,
                   fsDirs, fsFiles, created, sigints>>

\* process.on('SIGINT', onProcessEnd): the handler runs cleanup() and the
\* process goes on.
Sigint ==
    /\ cpc \in {"fetch", "jest"}
    /\ sigints < MaxSigints
    /\ sigints' = sigints + 1
    /\ onProcessEnd
    /\ lastEvent' = "SIGINT"
    /\ UNCHANGED tvars
    /\ UNCHANGED <<cpc, indexRes, storiesRes, indexJson, tmpDir, indexTmpDir, written,
                   created, exitCode>>

\* process.on('exit', onProcessEnd): the handler runs cleanup() and the
\* process is gone.
ExitEvent ==
    /\ cpc = "exit"
    /\ cpc' = "ended"
    /\ onProcessEnd
    /\ lastEvent' = "exit"
    /\ UNCHANGED tvars
    /\ UNCHANGED <<indexRes, storiesRes, indexJson, tmpDir, indexTmpDir, written,
                   created, exitCode, sigints>>

InitCli ==
    /\ index = [entries |-> << >>]
    /\ includeTags \in PolicyTagSets
    /\ excludeTags \in PolicyTagSets
    /\ skipTags \in SkipTagSets
    /\ pc = [r \in Runs |-> "idle"]
    /\ titleIdToEntries = [r \in Runs |-> << >>]
    /\ ret = [r \in Runs |-> [kind |-> "none"]]
    /\ CliIdle

NextCli ==
    \/ FetchIndexJson
    \/ Transform
    \/ MakeTempDir
    \/ WriteTestFile
    \/ ReturnTempDir
    \/ JestDone
    \/ Sigint
    \/ ExitEvent

SpecCli == InitCli /\ [][NextCli]_vars

(***************************************************************************)
(* Reading a generated unit back: a unit is the outer describe header (six *)
(* tokens), the story blocks, and the footer (three tokens).  A story      *)
(* block is a describe header, one test call and a footer.                 *)
(***************************************************************************)
Unquote(tok) == SubSeq(tok, 2, Len(tok) - 1)

IsLiteral(tok) == Len(tok) >= 2 /\ tok[1] = "\"" /\ tok[Len(tok)] = "\""

HeaderOk(text, at) ==
    /\ text[at] = <<"describe">>
    /\ text[at + 1] = <<"(">>
    /\ IsLiteral(text[at + 2])
    /\ text[at + 3] = <<",">>
    /\ text[at + 4] = <<"()=>">>
    /\ text[at + 5] = <<"{">>

FooterOk(text, at) ==
    /\ text[at] = <<"}">>
    /\ text[at + 1] = <<")">>
    /\ text[at + 2] = <<";">>

FnLen == Len(testPrefixer(<< >>, << >>, << >>, << >>))

BlockLen == 6 + 4 + FnLen + 2 + 3

StoryBlocks(text) ==
    [i \in 1..((Len(text) - 9) \div BlockLen) |->
        SubSeq(text, 6 + (i - 1) * BlockLen + 1, 6 + i * BlockLen)]

UnitTitle(text) == Unquote(text[3])

BlockName(b) == Unquote(b[3])

TestCallee(b) == b[7]

TestName(b) == Unquote(b[9])

BlockStoryId(b) == Unquote(b[19])

\* Exactly one test call between the block's header and footer.
BlockOk(b) ==
    /\ HeaderOk(b, 1)
    /\ TestCallee(b) \in {<<"it">>, <<"it.skip">>}
    /\ b[8] = <<"(">>
    /\ IsLiteral(b[9])
    /\ b[10] = <<",">>
    /\ b[11] = <<"async">>
    /\ \A j \in 11..(10 + FnLen) : b[j] \notin {<<"it">>, <<"it.skip">>, <<"describe">>}
    /\ b[11 + FnLen] = <<")">>
    /\ b[12 + FnLen] = <<";">>
    /\ FooterOk(b, 13 + FnLen)

UnitOk(text) ==
    /\ Len(text) >= 9
    /\ (Len(text) - 9) % BlockLen = 0
    /\ HeaderOk(text, 1)
    /\ FooterOk(text, Len(text) - 2)
    /\ LET bs == StoryBlocks(text)
       IN  \A i \in DOMAIN bs : BlockOk(bs[i])

(***************************************************************************)
(* The claims' vocabulary, stated on the raw index and the tag policy      *)
(***************************************************************************)
RawEntries == IF "stories" \in DOMAIN index THEN index.stories ELSE index.entries

TagsOf(e) == IF "tags" \in DOMAIN e THEN e.tags ELSE {}

GroupOf(titleId) == {i \in DOMAIN RawEntries : toId(RawEntries[i].title) = titleId}

V3DocsOnlyGroup(titleId) ==
    /\ Cardinality(GroupOf(titleId)) = 1
    /\ \A i \in GroupOf(titleId) : RawEntries[i].name = PageName

DocsEntry(e) ==
    IF VersionIs(index, 3) THEN V3DocsOnlyGroup(toId(e.title))
    ELSE "type" \in DOMAIN e /\ e.type = "docs"

PassesPolicy(e) ==
    /\ includeTags = {} \/ TagsOf(e) \cap includeTags # {}
    /\ TagsOf(e) \cap excludeTags = {}

Survives(e) == ~DocsEntry(e) /\ PassesPolicy(e)

Returned(r) == pc[r] = "done" /\ ret[r].kind = "return"

\* The positions of the story blocks that carry the entry's id in the unit of
\* the entry's group.
BlocksOf(r, e) ==
    IF Has(ret[r].value, toId(e.title))
    THEN LET bs == StoryBlocks(Get(ret[r].value, toId(e.title)))
         IN  {i \in DOMAIN bs : BlockStoryId(bs[i]) = e.id}
    ELSE {}

\* C1: an entry has a nested test block in its group's unit if and only if it
\* is not a docs entry, the include set is empty or meets its tags, and no
\* exclude tag is among its tags (absent tags count as the empty set).
C1_BlockIffSurvives ==
    \A r \in Runs : Returned(r) =>
        \A i \in DOMAIN RawEntries :
            (BlocksOf(r, RawEntries[i]) # {}) <=> Survives(RawEntries[i])

\* An entry that matches include and exclude is dropped beside one that is kept.
C1_Witness ==
    /\ Returned(1)
    /\ \E i, j \in DOMAIN RawEntries :
          /\ TagsOf(RawEntries[i]) \cap includeTags # {}
          /\ TagsOf(RawEntries[i]) \cap excludeTags # {}
          /\ ~DocsEntry(RawEntries[i])
          /\ BlocksOf(1, RawEntries[i]) = {}
          /\ TagsOf(RawEntries[j]) \cap includeTags # {}
          /\ BlocksOf(1, RawEntries[j]) # {}

\* C2: every key of the returned mapping has a unit with at least one story
\* test block (a group whose entries were all filtered out has no key).
C2_NoEmptyUnit ==
    \A r \in Runs : Returned(r) =>
        \A k \in DOMAIN ret[r].value :
            Len(StoryBlocks(ret[r].value[k].value)) >= 1

\* C3: every entry that passes docs filtering, inclusion and exclusion has a
\* test case, and the test case is it.skip exactly when a skip tag is among the
\* entry's tags.
C3_SkipMarksOnly ==
    \A r \in Runs : Returned(r) =>
        \A i \in DOMAIN RawEntries :
            Survives(RawEntries[i]) =>
                /\ BlocksOf(r, RawEntries[i]) # {}
                /\ \A b \in BlocksOf(r, RawEntries[i]) :
                      LET block == StoryBlocks(Get(ret[r].value, toId(RawEntries[i].title)))[b]
                      IN  /\ TestCallee(block) \in {<<"it">>, <<"it.skip">>}
                          /\ (TestCallee(block) = <<"it.skip">>)
                               <=> (TagsOf(RawEntries[i]) \cap skipTags # {})

\* One unit holds a skipped test case and a test case that is not skipped.
C3_Witness ==
    /\ Returned(1)
    /\ skipTags # {}
    /\ \E k \in DOMAIN ret[1].value :
          LET bs == StoryBlocks(ret[1].value[k].value)
          IN  \E i, j \in DOMAIN bs :
                 TestCallee(bs[i]) = <<"it.skip">> /\ TestCallee(bs[j]) = <<"it">>

\* C4: in a version-3 index the stories of a group are typed docs exactly when
\* the group is one story named exactly "Page"; such a group is never a key of
\* the result, and no other group is kept out of the result by this rule.
C4_V3DocsOnly ==
    \A r \in Runs : (pc[r] = "done" /\ VersionIs(index, 3)) =>
        /\ ret[r].kind = "return"
        /\ \A g \in DOMAIN titleIdToEntries[r] :
              LET titleId == titleIdToEntries[r][g].key
                  entries == titleIdToEntries[r][g].value
              IN  /\ \A i \in DOMAIN entries :
                        (entries[i].type = "docs") <=> V3DocsOnlyGroup(titleId)
                  /\ V3DocsOnlyGroup(titleId) => ~Has(ret[r].value, titleId)
                  /\ (~V3DocsOnlyGroup(titleId)
                        /\ \E i \in GroupOf(titleId) : PassesPolicy(RawEntries[i]))
                      => Has(ret[r].value, titleId)

\* A lone "Page" story is left out while a lone "page" story has a unit.
C4_Witness ==
    /\ Returned(1)
    /\ VersionIs(index, 3)
    /\ \E i, j \in DOMAIN RawEntries :
          /\ V3DocsOnlyGroup(toId(RawEntries[i].title))
          /\ PassesPolicy(RawEntries[i])
          /\ ~Has(ret[1].value, toId(RawEntries[i].title))
          /\ Cardinality(GroupOf(toId(RawEntries[j].title))) = 1
          /\ RawEntries[j].name # PageName
          /\ BlocksOf(1, RawEntries[j]) # {}

WithoutDocs(idx) ==
    [idx EXCEPT !.entries =
        SelectSeq(idx.entries, LAMBDA e : ~("type" \in DOMAIN e /\ e.type = "docs"))]

IdsIn(text) == {BlockStoryId(StoryBlocks(text)[i]) : i \in DOMAIN StoryBlocks(text)}

\* Two mappings with the same keys and the same text for each key (the order
\* in which the keys were inserted set aside).
SameUnits(m1, m2) ==
    /\ Len(m1) = Len(m2)
    /\ Keys(m1) = Keys(m2)
    /\ \A k \in Keys(m1) : Get(m1, k) = Get(m2, k)

\* C5: in a version-4 index no docs entry has a test block in any unit, and
\* the units are those of the index without its docs entries: the same keys,
\* and the same text for each key.
C5_V4DocsNeverTested ==
    \A r \in Runs : (Returned(r) /\ VersionIs(index, 4)) =>
        /\ \A i \in DOMAIN index.entries :
              ("type" \in DOMAIN index.entries[i] /\ index.entries[i].type = "docs") =>
                 \A k \in DOMAIN ret[r].value :
                    index.entries[i].id \notin IdsIn(ret[r].value[k].value)
        /\ SameUnits(ret[r].value,
                     transformPlaywrightJson(WithoutDocs(index),
                                             includeTags, excludeTags, skipTags).value)

\* A docs entry that passes the tag policy shares its group with a tested story.
C5_Witness ==
    /\ Returned(1)
    /\ VersionIs(index, 4)
    /\ \E i, j \in DOMAIN index.entries :
          /\ "type" \in DOMAIN index.entries[i] /\ index.entries[i].type = "docs"
          /\ PassesPolicy(index.entries[i])
          /\ toId(index.entries[i].title) = toId(index.entries[j].title)
          /\ BlocksOf(1, index.entries[j]) # {}
          /\ BlocksOf(1, index.entries[i]) = {}

\* The entries of a group that survive, in index order.
SurvivorsOf(titleId) ==
    LET S[i \in 0..Len(RawEntries)] ==
            IF i = 0 THEN << >>
            ELSE IF toId(RawEntries[i].title) = titleId /\ Survives(RawEntries[i])
                 THEN Append(S[i - 1], RawEntries[i])
                 ELSE S[i - 1]
    IN  S[Len(RawEntries)]

FirstNotDocs(titleId) ==
    RawEntries[CHOOSE i \in GroupOf(titleId) :
                  /\ ~DocsEntry(RawEntries[i])
                  /\ \A j \in GroupOf(titleId) : ~DocsEntry(RawEntries[j]) => i <= j]

BlocksMatch(text, titleId) ==
    LET bs == StoryBlocks(text)
        es == SurvivorsOf(titleId)
    IN  /\ UnitOk(text)
        /\ Len(bs) = Len(es)
        /\ \A i \in DOMAIN bs :
              /\ BlockStoryId(bs[i]) = es[i].id
              /\ BlockName(bs[i]) = es[i].name
              /\ TestName(bs[i]) =
                    IF PlayFn \in TagsOf(es[i]) THEN <<"play-test">> ELSE <<"smoke-test">>

VersionText == IF "v" \in DOMAIN index THEN ToString(index.v) ELSE "undefined"

\* C6: an index whose v is neither 3 nor 4 (or is absent) makes the transform
\* throw an error whose message carries the value, with no mapping returned;
\* in the CLI no temporary directory and no test file is made and the process
\* exits with code 1.
C6_UnsupportedVersion ==
    (pc[1] = "done" /\ ~VersionIs(index, 3) /\ ~VersionIs(index, 4)) =>
        /\ DOMAIN ret[1] = {"kind", "message"}
        /\ ret[1].kind = "throw"
        /\ ret[1].message = <<"Unsupported version ", VersionText>>
        /\ created = {}
        /\ fsDirs = {}
        /\ fsFiles = {}
        /\ cpc \in {"exit", "ended"}
        /\ exitCode = 1

\* The process has ended after the transform rejected a version-5 index.
C6_Witness ==
    /\ cpc = "ended"
    /\ pc[1] = "done"
    /\ VersionIs(index, 5)
    /\ ret[1].kind = "throw"
    /\ exitCode = 1

C10_IndexFetch ==
    indexJson.kind # "none" =>
        LET iGood == indexRes.kind = "response" /\ indexRes.ok /\ Parses(indexRes)
            sGood == storiesRes.kind = "response" /\ storiesRes.ok /\ Parses(storiesRes)
        IN  /\ iGood => indexJson = [kind |-> "return", value |-> JSONparse(indexRes)]
            /\ (~iGood /\ sGood) =>
                  indexJson = [kind |-> "return", value |-> JSONparse(storiesRes)]
            /\ (~iGood /\ ~sGood) => indexJson.kind = "throw"
            /\ indexJson.kind = "throw" =>
                  /\ pc[1] = "idle"
                  /\ created = {}
                  /\ fsFiles = {}
                  /\ cpc \in {"exit", "ended"}
                  /\ exitCode = 1

====
